---- MODULE Spec2Model ----
(***************************************************************************)
(* Typing Indicator+ (src/index.js): the character-side indicator state    *)
(* machine and the user-side indicator with its idle timer.                *)
(* Module-level JavaScript variables, the part of the DOM the              *)
(* plugin reads and writes, the host's timer table and the mutation        *)
(* observer's record queue are the state; every host event, timer expiry   *)
(* and observer delivery is one action.                                    *)
(*                                                                         *)
(* Time is abstracted: a pending timer may expire at any later macrotask.  *)
(* Timers created with the same delay expire in creation order.  Mutation  *)
(* records are delivered in a microtask, so no timer or UI task runs while *)
(* records are undelivered; synchronous host code (further DOM changes,    *)
(* event emission) may.  Only records about .mes elements and reasoning    *)
(* blocks are queued: the records the plugin's own writes to its node      *)
(* cause carry no reasoning block and the callback skips them.             *)
(***************************************************************************)
EXTENDS Integers, Sequences, FiniteSets, TLC

\* ---------------------------------------------------------------- bounds
MaxMsgs     == 2   \* .mes elements the host renders into #chat
MaxBatch    == 2   \* mutation records queued before a delivery
FewMsgs     == 1   \* the same two bounds where all three loops run at once
FewBatch    == 1
MaxRemovals == 2   \* pending delayed node removals
MaxUnpause  == 1   \* pending one-shot 'paused' removals
MaxSilent   == 1   \* firings in a row of the sound timer that play no cue
MaxPending  == 2   \* one-shot pause timers pending at once in SpecPause

\* ------------------------------------------------------ program constants
HideDelay      == 250                 \* setTimeout(..., 250) in hideTypingIndicator
SoundDelays    == {300, 499}          \* 300 + Math.random() * 200
PauseDurations == {300, 899}          \* 300 + Math.random() * 600
NextChecks     == {800, 2299}         \* 800 + Math.random() * 1500

Names            == {"Alice"}         \* _args.character_name values
NoName           == "-"               \* _args without character_name
GenTypes         == {"normal", "quiet", "impersonate"}
noIndicatorTypes == {"quiet", "impersonate"}
hideEvents       == {"GENERATION_STOPPED", "GENERATION_ENDED", "CHAT_CHANGED"}
ReasoningStates  == {"thinking", "done"}
SettingKeys      == {"enabled", "soundEnabled", "simulatePauses",
                     "showThinking", "groupChatSupport"}
\* What one call of playTypingSound comes to: the cue is played, or it is
\* not (no AudioContext can be had, or the synthesis throws).
AudioOutcomes    == {"played", "failed"}

DefaultTimeoutMs == 600               \* settings.userTypingTimeoutMs || 600
TimeoutValues    == {0, 300, 600}     \* the number input: Number(input.value)
UserTexts        == {"{{user}} is typing...", "..."}   \* userCustomText
NoHTML           == ""                \* no user-indicator node, no content
UserSettings     == [userTypingEnabled : BOOLEAN,
                     userTypingTimeoutMs : TimeoutValues,
                     userCustomText : UserTexts]

VARIABLES
    settings,            \* extension_settings[MODULE], the flags the core reads
    name2,               \* host: a character identity is known
    chatPresent,         \* host: document.getElementById('chat') is non-null
    pauseTimeout,        \* "null" | "live" | "stale" (handle of a fired timer)
    soundInterval,       \* "null" | "live"
    isIndicatorVisible,
    isCharThinking,
    typingCharacters,
    thinkingObserver,    \* "null" | "live"
    nodes,               \* number of #typing_indicator_plus elements in #chat
    nodeClass,           \* state classes of the first such element
    nodeHTML,            \* sub-state its innerHTML shows: "typing" | "thinking"
    messages,            \* #chat .mes in order: data-state of its reasoning block
    soundTimers,         \* host timer table: periods of live setInterval timers
    pauseTimers,         \* delays of live pause-loop timeouts
    unpauseTimers,       \* durations of live one-shot 'paused' removals
    removeTimers,        \* delays of live delayed node removals
    observers,           \* number of connected MutationObserver instances
    pending,             \* mutation records queued for delivery
    silentFirings,       \* host timer table: firings of the sound timer since
                         \* the last call of playTypingSound (where counted)
    userSettings,        \* extension_settings[MODULE], the user-indicator part
    sendFormPresent,     \* host: document.getElementById('send_form') is non-null
    userTypingTimeout,   \* "null" | "live" | "stale" (handle of a fired timer)
    userNodes,           \* number of #typing_indicator_user elements
    userNodeHTML,        \* the text its innerHTML was rendered from
    userTimers,          \* host timer table: delays of live idle timeouts
    userPhase,           \* last user-side event: "none", "key" (a keystroke
                         \* that was accepted), "ignored" (one that was not),
                         \* "idle" (expiry of the idle timer), "sent"
    phase                \* lifecycle history: "init", "hidden" after a hide
                         \* event, "started" after a start that was not
                         \* suppressed, "restarted" after a further one

vars == <<settings, name2, chatPresent, pauseTimeout, soundInterval,
          isIndicatorVisible, isCharThinking, typingCharacters,
          thinkingObserver, nodes, nodeClass, nodeHTML, messages,
          soundTimers, pauseTimers, unpauseTimers, removeTimers,
          observers, pending, silentFirings, userSettings, sendFormPresent,
          userTypingTimeout, userNodes, userNodeHTML, userTimers, userPhase,
          phase>>

\* The world the plugin's functions read and write, as one record.  Field
\* out collects the effects of one call, in order: "cue", "warn" (a logged
\* warning), "paused", "mount", "unmount", or the sub-state ("typing",
\* "thinking") a render wrote.
World ==
    [pauseTimeout |-> pauseTimeout, soundInterval |-> soundInterval,
     isIndicatorVisible |-> isIndicatorVisible,
     isCharThinking |-> isCharThinking,
     typingCharacters |-> typingCharacters,
     thinkingObserver |-> thinkingObserver,
     nodes |-> nodes, nodeClass |-> nodeClass, nodeHTML |-> nodeHTML,
     soundTimers |-> soundTimers, pauseTimers |-> pauseTimers,
     unpauseTimers |-> unpauseTimers, removeTimers |-> removeTimers,
     observers |-> observers, pending |-> pending,
     silentFirings |-> silentFirings, out |-> <<>>]

\* The call has reached playTypingSound.
Attempted(w) == \E k \in 1..Len(w.out) : w.out[k] \in {"cue", "warn"}

Commit(w) ==
    /\ pauseTimeout' = w.pauseTimeout
    /\ soundInterval' = w.soundInterval
    /\ isIndicatorVisible' = w.isIndicatorVisible
    /\ isCharThinking' = w.isCharThinking
    /\ typingCharacters' = w.typingCharacters
    /\ thinkingObserver' = w.thinkingObserver
    /\ nodes' = w.nodes
    /\ nodeClass' = w.nodeClass
    /\ nodeHTML' = w.nodeHTML
    /\ soundTimers' = w.soundTimers
    /\ pauseTimers' = w.pauseTimers
    /\ unpauseTimers' = w.unpauseTimers
    /\ removeTimers' = w.removeTimers
    /\ observers' = w.observers
    /\ pending' = w.pending
    /\ silentFirings' = IF w.soundTimers = <<>> \/ Attempted(w)
                        THEN 0 ELSE w.silentFirings

Front(s) == SubSeq(s, 1, Len(s) - 1)

RemoveAt(s, i) == SubSeq(s, 1, i - 1) \o SubSeq(s, i + 1, Len(s))

\* ------------------------------------------------------------ the plugin

\* generateIndicatorHTML(settings, false, isThinking): the sub-state shown.
generateIndicatorHTML(isThinking) ==
    IF isThinking /\ settings.showThinking THEN "thinking" ELSE "typing"

\* playTypingSound: one cue, an opaque side effect.  Without an audio
\* context initAudioContext warns and the function returns; a throw of the
\* synthesis is caught and logged.
playTypingSound(w, audio) ==
    IF audio = "played" THEN [w EXCEPT !.out = Append(@, "cue")]
    ELSE [w EXCEPT !.out = Append(@, "warn")]

\* clearTimers that drops the sound handle without clearInterval.
clearTimers_LeakSound(w) ==
    LET w1 == IF w.pauseTimeout # "null"
              THEN [w EXCEPT !.pauseTimers =
                                 IF w.pauseTimeout = "live" THEN Front(@) ELSE @,
                             !.pauseTimeout = "null"]
              ELSE w
        w2 == [w1 EXCEPT !.soundInterval = "null"]
        w3 == IF w2.thinkingObserver # "null"
              THEN [w2 EXCEPT !.observers = @ - 1,
                              !.pending = <<>>,
                              !.thinkingObserver = "null"]
              ELSE w2
    IN  [w3 EXCEPT !.isCharThinking = FALSE]

\* clearTimers whose three tests are chained with else.
clearTimers_ElseIf(w) ==
    LET w1 == IF w.pauseTimeout # "null"
              THEN [w EXCEPT !.pauseTimers =
                                 IF w.pauseTimeout = "live" THEN Front(@) ELSE @,
                             !.pauseTimeout = "null"]
              ELSE IF w.soundInterval # "null"
              THEN [w EXCEPT !.soundTimers = Front(@),
                             !.soundInterval = "null"]
              ELSE IF w.thinkingObserver # "null"
              THEN [w EXCEPT !.observers = @ - 1,
                             !.pending = <<>>,
                             !.thinkingObserver = "null"]
              ELSE w
    IN  [w1 EXCEPT !.isCharThinking = FALSE]

\* clearTimers without the final reset of the thinking flag.
clearTimers_NoReset(w) ==
    LET w1 == IF w.pauseTimeout # "null"
              THEN [w EXCEPT !.pauseTimers =
                                 IF w.pauseTimeout = "live" THEN Front(@) ELSE @,
                             !.pauseTimeout = "null"]
              ELSE w
        w2 == IF w1.soundInterval # "null"
              THEN [w1 EXCEPT !.soundTimers = Front(@),
                              !.soundInterval = "null"]
              ELSE w1
    IN  IF w2.thinkingObserver # "null"
        THEN [w2 EXCEPT !.observers = @ - 1,
                        !.pending = <<>>,
                        !.thinkingObserver = "null"]
        ELSE w2

\* clearTimers that leaves the observer connected.
clearTimers_KeepObserver(w) ==
    LET w1 == IF w.pauseTimeout # "null"
              THEN [w EXCEPT !.pauseTimers =
                                 IF w.pauseTimeout = "live" THEN Front(@) ELSE @,
                             !.pauseTimeout = "null"]
              ELSE w
        w2 == IF w1.soundInterval # "null"
              THEN [w1 EXCEPT !.soundTimers = Front(@),
                              !.soundInterval = "null"]
              ELSE w1
    IN  [w2 EXCEPT !.isCharThinking = FALSE]

clearTimers(w) ==
    LET w1 == IF w.pauseTimeout # "null"
              THEN [w EXCEPT !.pauseTimers =
                                 IF w.pauseTimeout = "live" THEN Front(@) ELSE @,
                             !.pauseTimeout = "null"]
              ELSE w
        w2 == IF w1.soundInterval # "null"
              THEN [w1 EXCEPT !.soundTimers = Front(@),
                              !.soundInterval = "null"]
              ELSE w1
        w3 == IF w2.thinkingObserver # "null"
              THEN [w2 EXCEPT !.observers = @ - 1,
                              !.pending = <<>>,
                              !.thinkingObserver = "null"]
              ELSE w2
    IN  [w3 EXCEPT !.isCharThinking = FALSE]

initThinkingObserver(w) ==
    IF ~settings.showThinking THEN w
    ELSE IF w.thinkingObserver # "null" THEN w
    ELSE IF ~chatPresent THEN w
    ELSE [w EXCEPT !.observers = @ + 1, !.thinkingObserver = "live"]

\* schedulePause with the next tick scheduled only when no pause was applied.
schedulePause_ElseNext(w, rnd) ==
    IF w.nodes = 0 \/ ~w.isIndicatorVisible THEN w
    ELSE IF rnd.shouldPause
         THEN [w EXCEPT !.nodeClass = @ \cup {"paused"},
                        !.unpauseTimers = Append(@, rnd.pauseDuration),
                        !.out = Append(@, "paused")]
         ELSE [w EXCEPT !.pauseTimers = Append(@, rnd.nextCheck),
                        !.pauseTimeout = "live"]

\* rnd.shouldPause, rnd.pauseDuration, rnd.nextCheck are the Math.random draws.
schedulePause(w, rnd) ==
    IF w.nodes = 0 \/ ~w.isIndicatorVisible THEN w
    ELSE LET w1 == IF rnd.shouldPause
                   THEN [w EXCEPT !.nodeClass = @ \cup {"paused"},
                                  !.unpauseTimers = Append(@, rnd.pauseDuration),
                                  !.out = Append(@, "paused")]
                   ELSE w
         IN  [w1 EXCEPT !.pauseTimers = Append(@, rnd.nextCheck),
                        !.pauseTimeout = "live"]

\* The one-shot callback of a pause, run at the expiry of timer i: it removes
\* 'paused' from whatever node is mounted then.
unpauseCallback(w, i) ==
    [w EXCEPT !.unpauseTimers = RemoveAt(@, i),
              !.nodeClass = @ \ {"paused"}]

\* showTypingIndicator that clears the timers before its early returns.
showTypingIndicator_ClearFirst(w, type, name, dryRun, rnd) ==
    LET w1 == clearTimers(w)
    IN
    IF type \in noIndicatorTypes \/ dryRun THEN w1
    ELSE IF ~settings.enabled \/ ~name2 THEN w1
    ELSE
    LET w2 == IF settings.groupChatSupport /\ name # NoName
              THEN [w1 EXCEPT !.typingCharacters = @ \cup {name}]
              ELSE w1
        html == generateIndicatorHTML(w2.isCharThinking)
    IN  IF w2.nodes > 0
        THEN [w2 EXCEPT !.nodeHTML = html, !.nodeClass = {"visible"},
                        !.out = Append(@, html)]
        ELSE IF ~chatPresent THEN w2
        ELSE
        LET w3 == [w2 EXCEPT !.nodes = @ + 1, !.nodeHTML = html,
                             !.nodeClass = {"visible"},
                             !.isIndicatorVisible = TRUE,
                             !.out = @ \o <<html, "mount">>]
            w4 == IF settings.soundEnabled
                  THEN [playTypingSound(w3, rnd.audio) EXCEPT
                            !.soundTimers = Append(@, rnd.soundDelay),
                            !.soundInterval = "live"]
                  ELSE w3
            w5 == initThinkingObserver(w4)
        IN  IF settings.simulatePauses /\ ~w5.isCharThinking
            THEN schedulePause(w5, rnd)
            ELSE w5

\* showTypingIndicator without the test of name2.
showTypingIndicator_NoIdentity(w, type, name, dryRun, rnd) ==
    IF type \in noIndicatorTypes \/ dryRun THEN w
    ELSE IF ~settings.enabled THEN w
    ELSE
    LET w1 == clearTimers(w)
        w2 == IF settings.groupChatSupport /\ name # NoName
              THEN [w1 EXCEPT !.typingCharacters = @ \cup {name}]
              ELSE w1
        html == generateIndicatorHTML(w2.isCharThinking)
    IN  IF w2.nodes > 0
        THEN [w2 EXCEPT !.nodeHTML = html, !.nodeClass = {"visible"},
                        !.out = Append(@, html)]
        ELSE IF ~chatPresent THEN w2
        ELSE
        LET w3 == [w2 EXCEPT !.nodes = @ + 1, !.nodeHTML = html,
                             !.nodeClass = {"visible"},
                             !.isIndicatorVisible = TRUE,
                             !.out = @ \o <<html, "mount">>]
            w4 == IF settings.soundEnabled
                  THEN [playTypingSound(w3, rnd.audio) EXCEPT
                            !.soundTimers = Append(@, rnd.soundDelay),
                            !.soundInterval = "live"]
                  ELSE w3
            w5 == initThinkingObserver(w4)
        IN  IF settings.simulatePauses /\ ~w5.isCharThinking
            THEN schedulePause(w5, rnd)
            ELSE w5

\* showTypingIndicator that a failure of playTypingSound ends: nothing
\* after the call runs.
showTypingIndicator_Uncaught(w, type, name, dryRun, rnd) ==
    IF type \in noIndicatorTypes \/ dryRun THEN w
    ELSE IF ~settings.enabled \/ ~name2 THEN w
    ELSE
    LET w1 == clearTimers(w)
        w2 == IF settings.groupChatSupport /\ name # NoName
              THEN [w1 EXCEPT !.typingCharacters = @ \cup {name}]
              ELSE w1
        html == generateIndicatorHTML(w2.isCharThinking)
    IN  IF w2.nodes > 0
        THEN [w2 EXCEPT !.nodeHTML = html, !.nodeClass = {"visible"},
                        !.out = Append(@, html)]
        ELSE IF ~chatPresent THEN w2
        ELSE
        LET w3 == [w2 EXCEPT !.nodes = @ + 1, !.nodeHTML = html,
                             !.nodeClass = {"visible"},
                             !.isIndicatorVisible = TRUE,
                             !.out = @ \o <<html, "mount">>]
            w4 == IF settings.soundEnabled
                  THEN [playTypingSound(w3, rnd.audio) EXCEPT
                            !.soundTimers = Append(@, rnd.soundDelay),
                            !.soundInterval = "live"]
                  ELSE w3
            w5 == initThinkingObserver(w4)
        IN  IF settings.soundEnabled /\ rnd.audio # "played" THEN w3
            ELSE IF settings.simulatePauses /\ ~w5.isCharThinking
            THEN schedulePause(w5, rnd)
            ELSE w5

\* showTypingIndicator that records the name whatever the group-chat setting.
showTypingIndicator_AnyMode(w, type, name, dryRun, rnd) ==
    IF type \in noIndicatorTypes \/ dryRun THEN w
    ELSE IF ~settings.enabled \/ ~name2 THEN w
    ELSE
    LET w1 == clearTimers(w)
        w2 == IF name # NoName
              THEN [w1 EXCEPT !.typingCharacters = @ \cup {name}]
              ELSE w1
        html == generateIndicatorHTML(w2.isCharThinking)
    IN  IF w2.nodes > 0
        THEN [w2 EXCEPT !.nodeHTML = html, !.nodeClass = {"visible"},
                        !.out = Append(@, html)]
        ELSE IF ~chatPresent THEN w2
        ELSE
        LET w3 == [w2 EXCEPT !.nodes = @ + 1, !.nodeHTML = html,
                             !.nodeClass = {"visible"},
                             !.isIndicatorVisible = TRUE,
                             !.out = @ \o <<html, "mount">>]
            w4 == IF settings.soundEnabled
                  THEN [playTypingSound(w3, rnd.audio) EXCEPT
                            !.soundTimers = Append(@, rnd.soundDelay),
                            !.soundInterval = "live"]
                  ELSE w3
            w5 == initThinkingObserver(w4)
        IN  IF settings.simulatePauses /\ ~w5.isCharThinking
            THEN schedulePause(w5, rnd)
            ELSE w5

showTypingIndicator(w, type, name, dryRun, rnd) ==
    IF type \in noIndicatorTypes \/ dryRun THEN w
    ELSE IF ~settings.enabled \/ ~name2 THEN w
    ELSE
    LET w1 == clearTimers(w)
        w2 == IF settings.groupChatSupport /\ name # NoName
              THEN [w1 EXCEPT !.typingCharacters = @ \cup {name}]
              ELSE w1
        html == generateIndicatorHTML(w2.isCharThinking)
    IN  IF w2.nodes > 0
        THEN [w2 EXCEPT !.nodeHTML = html, !.nodeClass = {"visible"},
                        !.out = Append(@, html)]
        ELSE IF ~chatPresent THEN w2
        ELSE
        LET w3 == [w2 EXCEPT !.nodes = @ + 1, !.nodeHTML = html,
                             !.nodeClass = {"visible"},
                             !.isIndicatorVisible = TRUE,
                             !.out = @ \o <<html, "mount">>]
            w4 == IF settings.soundEnabled
                  THEN [playTypingSound(w3, rnd.audio) EXCEPT
                            !.soundTimers = Append(@, rnd.soundDelay),
                            !.soundInterval = "live"]
                  ELSE w3
            w5 == initThinkingObserver(w4)
        IN  IF settings.simulatePauses /\ ~w5.isCharThinking
            THEN schedulePause(w5, rnd)
            ELSE w5

\* hideTypingIndicator without the call of clearTimers.
hideTypingIndicator_NoClear(w) ==
    LET w1 == [w EXCEPT !.isIndicatorVisible = FALSE]
    IN  IF w1.nodes > 0
        THEN [w1 EXCEPT !.nodeClass = (@ \ {"visible"}) \cup {"hiding"},
                        !.removeTimers = Append(@, HideDelay)]
        ELSE w1

\* hideTypingIndicator that schedules the removal without looking for the node.
hideTypingIndicator_NoCheck(w) ==
    LET w1 == clearTimers([w EXCEPT !.isIndicatorVisible = FALSE])
    IN  [w1 EXCEPT !.nodeClass = IF w1.nodes > 0
                                 THEN (@ \ {"visible"}) \cup {"hiding"} ELSE @,
                   !.removeTimers = Append(@, HideDelay)]

hideTypingIndicator(w) ==
    LET w1 == clearTimers([w EXCEPT !.isIndicatorVisible = FALSE])
    IN  IF w1.nodes > 0
        THEN [w1 EXCEPT !.nodeClass = (@ \ {"visible"}) \cup {"hiding"},
                        !.removeTimers = Append(@, HideDelay)]
        ELSE w1

\* The hideEvents listener: typingCharacters.clear(); hideTypingIndicator().
hideHandler(w) == hideTypingIndicator([w EXCEPT !.typingCharacters = {}])

\* The setInterval callback of the sound loop.
soundCallback(w, audio) ==
    IF w.isIndicatorVisible /\ settings.soundEnabled
    THEN playTypingSound(w, audio)
    ELSE w

\* handleMessageChunk, the CHARACTER_MESSAGE_RENDERED listener: an empty body.
handleMessageChunk(w) == w

\* The delayed removal: el.remove() on the element getElementById finds.
removeNode(w) ==
    IF w.nodes = 0 THEN w
    ELSE IF w.nodes = 1
         THEN [w EXCEPT !.nodes = 0, !.nodeClass = {}, !.nodeHTML = "typing",
                        !.out = Append(@, "unmount")]
         ELSE [w EXCEPT !.nodes = @ - 1, !.out = Append(@, "unmount")]

\* updateThinkingUI: re-render the inner content for the current flag.
updateThinkingUI(w) ==
    IF w.nodes > 0
    THEN LET html == generateIndicatorHTML(w.isCharThinking)
         IN  [w EXCEPT !.nodeHTML = html, !.out = Append(@, html)]
    ELSE w

\* handleMutation without the "done" branch of the attribute case.
handleMutation_NoDone(w, m, lastMes) ==
    LET dataState == messages[m.i]
    IN  IF m.type = "childList"
        THEN IF dataState = "none" THEN w
             ELSE IF m.i # lastMes THEN w
             ELSE IF dataState = "thinking"
                  THEN updateThinkingUI([w EXCEPT !.isCharThinking = TRUE])
                  ELSE w
        ELSE IF m.i # lastMes THEN w
             ELSE IF dataState = "thinking" /\ ~w.isCharThinking
                  THEN updateThinkingUI([w EXCEPT !.isCharThinking = TRUE])
             ELSE w

\* handleMutation without the containment test of the attribute case.
handleMutation_NoContain(w, m, lastMes) ==
    LET dataState == messages[m.i]
    IN  IF m.type = "childList"
        THEN IF dataState = "none" THEN w
             ELSE IF m.i # lastMes THEN w
             ELSE IF dataState = "thinking"
                  THEN updateThinkingUI([w EXCEPT !.isCharThinking = TRUE])
                  ELSE w
        ELSE IF dataState = "thinking" /\ ~w.isCharThinking
                  THEN updateThinkingUI([w EXCEPT !.isCharThinking = TRUE])
             ELSE IF dataState = "done" /\ w.isCharThinking
                  THEN updateThinkingUI([w EXCEPT !.isCharThinking = FALSE])
             ELSE w

\* One mutation record of the batch.  m.i is the .mes the added node or the
\* attribute's target belongs to; lastMes is the current last .mes; the
\* data-state is read when the callback runs.
handleMutation(w, m, lastMes) ==
    LET dataState == messages[m.i]
    IN  IF m.type = "childList"
        THEN IF dataState = "none" THEN w
             ELSE IF m.i # lastMes THEN w
             ELSE IF dataState = "thinking"
                  THEN updateThinkingUI([w EXCEPT !.isCharThinking = TRUE])
                  ELSE w
        ELSE IF m.i # lastMes THEN w
             ELSE IF dataState = "thinking" /\ ~w.isCharThinking
                  THEN updateThinkingUI([w EXCEPT !.isCharThinking = TRUE])
             ELSE IF dataState = "done" /\ w.isCharThinking
                  THEN updateThinkingUI([w EXCEPT !.isCharThinking = FALSE])
             ELSE w

RECURSIVE handleMutations(_, _, _)
handleMutations(w, ms, lastMes) ==
    IF ms = <<>> THEN w
    ELSE handleMutations(handleMutation(w, Head(ms), lastMes), Tail(ms), lastMes)

\* The MutationObserver callback for one batch of records.
observerCallback(w, mutations) ==
    IF ~w.isIndicatorVisible THEN w
    ELSE IF Len(messages) = 0 THEN w
    ELSE handleMutations(w, mutations, Len(messages))

\* ---------------------------------------------------- the user indicator

\* The part of the world showUserTypingIndicator and hideUserTypingIndicator
\* read and write.
UserWorld ==
    [userTypingTimeout |-> userTypingTimeout, userNodes |-> userNodes,
     userNodeHTML |-> userNodeHTML, userTimers |-> userTimers, out |-> <<>>]

CommitUser(u) ==
    /\ userTypingTimeout' = u.userTypingTimeout
    /\ userNodes' = u.userNodes
    /\ userNodeHTML' = u.userNodeHTML
    /\ userTimers' = u.userTimers

\* settings.userTypingTimeoutMs || 600
IdleTimeout == IF userSettings.userTypingTimeoutMs = 0 THEN DefaultTimeoutMs
               ELSE userSettings.userTypingTimeoutMs

\* generateIndicatorHTML(settings, true): the text the content shows, the
\* {{user}} placeholder replaced by name1 || 'You' (no persona name is
\* set); the other text of UserTexts has no placeholder.
generateUserHTML ==
    IF userSettings.userCustomText = "{{user}} is typing..."
    THEN "You is typing..."
    ELSE userSettings.userCustomText

\* if (userTypingTimeout) { clearTimeout(userTypingTimeout); ... = null; }
clearUserTimeout(u) ==
    IF u.userTypingTimeout # "null"
    THEN [u EXCEPT !.userTimers =
                       IF u.userTypingTimeout = "live" THEN Front(@) ELSE @,
                   !.userTypingTimeout = "null"]
    ELSE u

\* showUserTypingIndicator that renders the content on every keystroke.
showUserTypingIndicator_Rerender(u) ==
    IF ~settings.enabled \/ ~userSettings.userTypingEnabled THEN u
    ELSE
    LET u1 == clearUserTimeout(u)
        u2 == IF u1.userNodes = 0
              THEN IF sendFormPresent
                   THEN [u1 EXCEPT !.userNodes = 1,
                                   !.userNodeHTML = generateUserHTML,
                                   !.out = Append(@, "mount")]
                   ELSE u1
              ELSE [u1 EXCEPT !.userNodeHTML = generateUserHTML]
    IN  [u2 EXCEPT !.userTimers = Append(@, IdleTimeout),
                   !.userTypingTimeout = "live"]

\* showUserTypingIndicator that overwrites the handle without clearTimeout.
showUserTypingIndicator_NoCancel(u) ==
    IF ~settings.enabled \/ ~userSettings.userTypingEnabled THEN u
    ELSE
    LET u2 == IF u.userNodes = 0 /\ sendFormPresent
              THEN [u EXCEPT !.userNodes = 1,
                             !.userNodeHTML = generateUserHTML,
                             !.out = Append(@, "mount")]
              ELSE u
    IN  [u2 EXCEPT !.userTimers = Append(@, IdleTimeout),
                   !.userTypingTimeout = "live"]

\* showUserTypingIndicator without the test of the master switch.
showUserTypingIndicator_NoMaster(u) ==
    IF ~userSettings.userTypingEnabled THEN u
    ELSE
    LET u1 == clearUserTimeout(u)
        u2 == IF u1.userNodes = 0 /\ sendFormPresent
              THEN [u1 EXCEPT !.userNodes = 1,
                              !.userNodeHTML = generateUserHTML,
                              !.out = Append(@, "mount")]
              ELSE u1
    IN  [u2 EXCEPT !.userTimers = Append(@, IdleTimeout),
                   !.userTypingTimeout = "live"]

\* The 'input' listener of #send_textarea.  A node that finds no #send_form
\* is built and dropped.
showUserTypingIndicator(u) ==
    IF ~settings.enabled \/ ~userSettings.userTypingEnabled THEN u
    ELSE
    LET u1 == clearUserTimeout(u)
        u2 == IF u1.userNodes = 0 /\ sendFormPresent
              THEN [u1 EXCEPT !.userNodes = 1,
                              !.userNodeHTML = generateUserHTML,
                              !.out = Append(@, "mount")]
              ELSE u1
    IN  [u2 EXCEPT !.userTimers = Append(@, IdleTimeout),
                   !.userTypingTimeout = "live"]

\* hideUserTypingIndicator that removes the node and leaves the timer.
hideUserTypingIndicator_NoCancel(u) ==
    IF u.userNodes > 0
    THEN [u EXCEPT !.userNodes = @ - 1,
                   !.userNodeHTML = IF u.userNodes = 1 THEN NoHTML ELSE @,
                   !.out = Append(@, "unmount")]
    ELSE u

\* The MESSAGE_SENT listener and the callback of the idle timer.
hideUserTypingIndicator(u) ==
    LET u1 == clearUserTimeout(u)
    IN  IF u1.userNodes > 0
        THEN [u1 EXCEPT !.userNodes = @ - 1,
                        !.userNodeHTML = IF u1.userNodes = 1 THEN NoHTML ELSE @,
                        !.out = Append(@, "unmount")]
        ELSE u1

\* The i-th idle timeout leaves the timer table; a handle to it dangles.
UserExpired(u, i) ==
    [u EXCEPT !.userTimers = RemoveAt(@, i),
              !.userTypingTimeout = IF @ = "live" /\ i = Len(u.userTimers)
                                    THEN "stale" ELSE @]

\* --------------------------------------------------------------- actions

\* The Math.random draws of a call, and what its cue comes to: "played"
\* unless the caller puts another outcome.
Rnd == [soundDelay : SoundDelays, shouldPause : BOOLEAN,
        pauseDuration : PauseDurations, nextCheck : NextChecks,
        audio : {"played"}]

\* No mutation record awaits delivery: a new macrotask may start.
Drained == pending = <<>>

UserUnchanged ==
    UNCHANGED <<userSettings, sendFormPresent, userTypingTimeout, userNodes,
                userNodeHTML, userTimers, userPhase>>

HostVarsUnchanged ==
    /\ UNCHANGED <<settings, name2, chatPresent, messages>>
    /\ UserUnchanged

\* The start is neither suppressed nor a no-op (lines 540-546 fall through).
Proceeds(type, dryRun) ==
    /\ type \notin noIndicatorTypes
    /\ ~dryRun
    /\ settings.enabled
    /\ name2

\* The draws a call does not make, and the name it does not read, are fixed,
\* so that one call is one step.
Draws(type, name, dryRun, rnd) ==
    LET fresh == Proceeds(type, dryRun) /\ nodes = 0 /\ chatPresent
    IN  /\ (~Proceeds(type, dryRun) \/ ~settings.groupChatSupport) =>
               name = NoName
        /\ (~fresh \/ ~settings.soundEnabled) => rnd.soundDelay = 300
        /\ (~fresh \/ ~settings.simulatePauses) =>
               /\ ~rnd.shouldPause
               /\ rnd.nextCheck = 800
        /\ ~rnd.shouldPause => rnd.pauseDuration = 300
        /\ rnd.shouldPause => Len(unpauseTimers) < MaxUnpause

\* GENERATION_AFTER_COMMANDS
GenerationStart ==
    \E type \in GenTypes, name \in Names \cup {NoName}, dryRun \in BOOLEAN,
       rnd \in Rnd :
        /\ Draws(type, name, dryRun, rnd)
        /\ \E audio \in AudioOutcomes :
            /\ ~(Proceeds(type, dryRun) /\ nodes = 0 /\ chatPresent
                    /\ settings.soundEnabled) => audio = "played"
            /\ Commit(showTypingIndicator(World, type, name, dryRun,
                                          [rnd EXCEPT !.audio = audio]))
        /\ phase' = IF Proceeds(type, dryRun)
                    THEN (IF phase \in {"started", "restarted"}
                          THEN "restarted" ELSE "started")
                    ELSE phase
        /\ HostVarsUnchanged

\* GENERATION_STOPPED, GENERATION_ENDED, CHAT_CHANGED
HideEvent ==
    \E e \in hideEvents :
        /\ e \in hideEvents
        /\ nodes > 0 => Len(removeTimers) < MaxRemovals
        /\ Commit(hideHandler(World))
        /\ phase' = "hidden"
        /\ HostVarsUnchanged

\* A firing of a setInterval timer created by showTypingIndicator.  The
\* firings that reach no cue are counted where count is set.
SoundFires(count) ==
    /\ Drained
    /\ \E i \in 1..Len(soundTimers), audio \in AudioOutcomes :
        /\ ~(isIndicatorVisible /\ settings.soundEnabled) =>
               /\ audio = "played"
               /\ count => silentFirings < MaxSilent
        /\ Commit(soundCallback(
               [World EXCEPT !.silentFirings = IF count THEN @ + 1 ELSE @],
               audio))
    /\ UNCHANGED phase
    /\ HostVarsUnchanged

\* The i-th pause-loop timeout leaves the timer table; a handle to it dangles.
Expired(w, i) ==
    [w EXCEPT !.pauseTimers = RemoveAt(@, i),
              !.pauseTimeout = IF @ = "live" /\ i = Len(w.pauseTimers)
                               THEN "stale" ELSE @]

\* Expiry of a pause-loop timeout: () => schedulePause(settings).
PauseFires(maxUnpause) ==
    /\ Drained
    /\ \E i \in 1..Len(pauseTimers), rnd \in Rnd :
        /\ rnd.soundDelay = 300
        /\ ~rnd.shouldPause => rnd.pauseDuration = 300
        /\ rnd.shouldPause => Len(unpauseTimers) < maxUnpause
        /\ Commit(schedulePause(Expired(World, i), rnd))
    /\ UNCHANGED phase
    /\ HostVarsUnchanged

\* Expiry of the one-shot timer that ends a 'paused' state.
UnpauseFires ==
    /\ Drained
    /\ unpauseTimers # <<>>
    /\ \E i \in 1..Len(unpauseTimers) : Commit(unpauseCallback(World, i))
    /\ UNCHANGED phase
    /\ HostVarsUnchanged

\* Expiry of the delayed removal scheduled by hideTypingIndicator.
RemovalFires ==
    /\ Drained
    /\ removeTimers # <<>>
    /\ Commit(removeNode([World EXCEPT !.removeTimers = Tail(@)]))
    /\ UNCHANGED phase
    /\ HostVarsUnchanged

\* Delivery of the queued mutation records to the observer callback.
ObserverFires ==
    /\ observers > 0
    /\ pending # <<>>
    /\ Commit(observerCallback([World EXCEPT !.pending = <<>>], pending))
    /\ UNCHANGED phase
    /\ HostVarsUnchanged

\* A connected observer gets a record for a change in #chat's subtree.
Enqueue(m, maxBatch) ==
    /\ observers > 0 => Len(pending) < maxBatch
    /\ pending' = IF observers > 0 THEN Append(pending, m) ELSE pending

DomUnchanged ==
    /\ UNCHANGED <<settings, name2, chatPresent, pauseTimeout, soundInterval,
                   isIndicatorVisible, isCharThinking, typingCharacters,
                   thinkingObserver, nodes, nodeClass, nodeHTML, soundTimers,
                   pauseTimers, unpauseTimers, removeTimers, observers,
                   silentFirings, phase>>
    /\ UserUnchanged

\* The host renders a new last message, with or without a reasoning block.
HostAddMessage(maxMsgs, maxBatch) ==
    /\ chatPresent
    /\ Len(messages) < maxMsgs
    /\ \E st \in ReasoningStates \cup {"none"} :
        /\ messages' = Append(messages, st)
        /\ Enqueue([type |-> "childList", i |-> Len(messages) + 1], maxBatch)
    /\ DomUnchanged

\* The host inserts a reasoning block into a rendered message.
HostInsertReasoning(maxBatch) ==
    /\ \E i \in 1..Len(messages), st \in ReasoningStates :
        /\ messages[i] = "none"
        /\ messages' = [messages EXCEPT ![i] = st]
        /\ Enqueue([type |-> "childList", i |-> i], maxBatch)
    /\ DomUnchanged

\* The host changes the data-state attribute of a reasoning block.
HostSetState(maxBatch) ==
    /\ \E i \in 1..Len(messages), st \in ReasoningStates :
        /\ messages[i] \notin {"none", st}
        /\ messages' = [messages EXCEPT ![i] = st]
        /\ Enqueue([type |-> "attributes", i |-> i], maxBatch)
    /\ DomUnchanged

RuntimeUnchanged ==
    UNCHANGED <<pauseTimeout, soundInterval, isIndicatorVisible,
                isCharThinking, typingCharacters, thinkingObserver, nodes,
                nodeClass, nodeHTML, messages, soundTimers, pauseTimers,
                unpauseTimers, removeTimers, observers, pending,
                silentFirings, phase>>

\* A checkbox of the settings panel: v => settings.<key> = v.
SetSetting(keys) ==
    /\ Drained
    /\ \E k \in keys :
        settings' = [settings EXCEPT ![k] = ~@]
    /\ UNCHANGED <<name2, chatPresent>>
    /\ RuntimeUnchanged
    /\ UserUnchanged

\* The host selects or unloads a character (name2 is a live binding).
HostSetCharacter ==
    /\ Drained
    /\ name2' = ~name2
    /\ UNCHANGED <<settings, chatPresent>>
    /\ RuntimeUnchanged
    /\ UserUnchanged

\* What the user-side handlers leave alone.
CoreUnchanged ==
    /\ UNCHANGED <<settings, name2, chatPresent, userSettings, sendFormPresent>>
    /\ RuntimeUnchanged

\* An 'input' event of #send_textarea.
UserInput ==
    /\ Drained
    /\ CommitUser(showUserTypingIndicator(UserWorld))
    /\ userPhase' = IF settings.enabled /\ userSettings.userTypingEnabled
                    THEN "key" ELSE "ignored"
    /\ CoreUnchanged

\* Expiry of an idle timeout: () => hideUserTypingIndicator().
UserIdleFires ==
    /\ Drained
    /\ \E i \in 1..Len(userTimers) :
        CommitUser(hideUserTypingIndicator(UserExpired(UserWorld, i)))
    /\ userPhase' = "idle"
    /\ CoreUnchanged

\* MESSAGE_SENT
MessageSent ==
    /\ CommitUser(hideUserTypingIndicator(UserWorld))
    /\ userPhase' = "sent"
    /\ CoreUnchanged

\* The user-indicator controls of the settings panel.
SetUserSetting ==
    /\ Drained
    /\ \E us \in UserSettings :
        /\ Cardinality({k \in DOMAIN us : us[k] # userSettings[k]}) = 1
        /\ userSettings' = us
    /\ UNCHANGED <<settings, name2, chatPresent, sendFormPresent,
                   userTypingTimeout, userNodes, userNodeHTML, userTimers,
                   userPhase>>
    /\ RuntimeUnchanged

\* The module-level variables as declared, an empty DOM and timer table.
AtRest ==
    /\ pauseTimeout = "null"
    /\ soundInterval = "null"
    /\ isIndicatorVisible = FALSE
    /\ isCharThinking = FALSE
    /\ typingCharacters = {}
    /\ thinkingObserver = "null"
    /\ nodes = 0
    /\ nodeClass = {}
    /\ nodeHTML = "typing"
    /\ messages = <<>>
    /\ soundTimers = <<>>
    /\ pauseTimers = <<>>
    /\ unpauseTimers = <<>>
    /\ removeTimers = <<>>
    /\ observers = 0
    /\ pending = <<>>
    /\ silentFirings = 0
    /\ phase = "init"
    /\ userTypingTimeout = "null"
    /\ userNodes = 0
    /\ userNodeHTML = NoHTML
    /\ userTimers = <<>>
    /\ userPhase = "none"

\* defaultSettings, user-indicator part.
DefaultUserSettings ==
    [userTypingEnabled |-> FALSE, userTypingTimeoutMs |-> DefaultTimeoutMs,
     userCustomText |-> "{{user}} is typing..."]

Init ==
    /\ settings \in [SettingKeys -> BOOLEAN]
    /\ name2 \in BOOLEAN
    /\ chatPresent \in BOOLEAN
    /\ userSettings = DefaultUserSettings
    /\ sendFormPresent = TRUE
    /\ AtRest

\* The lifecycle with its sound and pause loops under every setting, in a
\* chat the host leaves alone: the observer is connected and disconnected
\* but has nothing to deliver.
Next ==
    \/ GenerationStart
    \/ HideEvent
    \/ SoundFires(FALSE)
    \/ PauseFires(MaxUnpause)
    \/ UnpauseFires
    \/ RemovalFires
    \/ SetSetting(SettingKeys)
    \/ HostSetCharacter

Spec == Init /\ [][Next]_vars

\* Thinking detection in a chat of MaxMsgs messages, with the sound, pause
\* and group-chat settings left off, so that neither loop ever starts.
ThinkingKeys == {"enabled", "showThinking"}

InitThinking ==
    /\ Init
    /\ ~settings.soundEnabled
    /\ ~settings.simulatePauses
    /\ ~settings.groupChatSupport

NextThinking ==
    \/ GenerationStart
    \/ HideEvent
    \/ RemovalFires
    \/ ObserverFires
    \/ HostAddMessage(MaxMsgs, MaxBatch)
    \/ HostInsertReasoning(MaxBatch)
    \/ HostSetState(MaxBatch)
    \/ SetSetting(ThinkingKeys)

SpecThinking == InitThinking /\ [][NextThinking]_vars

\* Everything at once: every setting on and left on, a character selected,
\* all three loops running, in a chat of FewMsgs messages.
InitAll ==
    /\ Init
    /\ \A k \in SettingKeys : settings[k]
    /\ name2
    /\ chatPresent

NextAll ==
    \/ GenerationStart
    \/ HideEvent
    \/ SoundFires(FALSE)
    \/ PauseFires(MaxUnpause)
    \/ UnpauseFires
    \/ RemovalFires
    \/ ObserverFires
    \/ HostAddMessage(FewMsgs, FewBatch)
    \/ HostInsertReasoning(FewBatch)
    \/ HostSetState(FewBatch)

SpecAll == InitAll /\ [][NextAll]_vars

\* The sound loop alone, its silent firings counted: a character selected
\* in a chat that is present, pauses, thinking detection and group chat off,
\* the master switch and the sound setting switched at will.
SoundKeys == {"enabled", "soundEnabled"}

InitSound ==
    /\ Init
    /\ ~settings.simulatePauses
    /\ ~settings.showThinking
    /\ ~settings.groupChatSupport
    /\ name2
    /\ chatPresent

NextSound ==
    \/ GenerationStart
    \/ HideEvent
    \/ SoundFires(TRUE)
    \/ RemovalFires
    \/ SetSetting(SoundKeys)

SpecSound == InitSound /\ [][NextSound]_vars

\* The user indicator: keystrokes, the idle timer and message-sent, under
\* every user setting, with the master switch on or off and with or without
\* a #send_form; the character side stays at rest with its other settings
\* as defaultSettings has them.
InitUser ==
    /\ settings \in {st \in [SettingKeys -> BOOLEAN] :
                       /\ ~st.soundEnabled /\ ~st.simulatePauses
                       /\ st.showThinking /\ ~st.groupChatSupport}
    /\ name2 = TRUE
    /\ chatPresent = TRUE
    /\ userSettings \in UserSettings
    /\ sendFormPresent \in BOOLEAN
    /\ AtRest

NextUser ==
    \/ UserInput
    \/ UserIdleFires
    \/ MessageSent
    \/ SetSetting({"enabled"})
    \/ SetUserSetting

SpecUser == InitUser /\ [][NextUser]_vars

\* The pause loop alone, with room for the one-shot timers of two pauses.
InitPause ==
    /\ Init
    /\ settings.enabled /\ settings.simulatePauses
    /\ ~settings.soundEnabled /\ ~settings.showThinking
    /\ ~settings.groupChatSupport
    /\ name2 /\ chatPresent

NextPause ==
    \/ GenerationStart
    \/ HideEvent
    \/ PauseFires(MaxPending)
    \/ UnpauseFires
    \/ RemovalFires

SpecPause == InitPause /\ [][NextPause]_vars

\* Group-chat bookkeeping alone: starts, hides and the two switches it reads.
GroupKeys == {"enabled", "groupChatSupport"}

InitGroup ==
    /\ Init
    /\ ~settings.soundEnabled /\ ~settings.simulatePauses
    /\ ~settings.showThinking

NextGroup ==
    \/ GenerationStart
    \/ HideEvent
    \/ RemovalFires
    \/ SetSetting(GroupKeys)
    \/ HostSetCharacter

SpecGroup == InitGroup /\ [][NextGroup]_vars

\* ---------------------------------------------------------------- claims

\* The draws a pause tick may make.
TickRnd == {r \in Rnd : r.soundDelay = 300}

\* C1: while generation-starts follow one another with no stop, end or
\* chat-changed event between them, there is at most one indicator node, one
\* live sound timer, one live pause timer and one connected observer.
C1_AtMostOne ==
    phase \in {"started", "restarted"} =>
        /\ nodes <= 1
        /\ Len(soundTimers) <= 1
        /\ Len(pauseTimers) <= 1
        /\ observers <= 1

\* A second start in a row has built the node and all three loops.
C1_Witness ==
    /\ phase = "restarted"
    /\ nodes = 1
    /\ Len(soundTimers) = 1
    /\ Len(pauseTimers) = 1
    /\ observers = 1

\* C2: after a stop, end or chat-changed event and until the next start that
\* is not suppressed, thinking is false, typingCharacters is empty, and no
\* firing of the sound loop plays a cue, no pause tick applies a pause and
\* no observer delivery changes the thinking flag.
C2_QuietAfterHide ==
    phase = "hidden" =>
        /\ ~isCharThinking
        /\ typingCharacters = {}
        /\ \A i \in 1..Len(soundTimers), audio \in AudioOutcomes :
               soundCallback(World, audio).out = <<>>
        /\ \A i \in 1..Len(pauseTimers), rnd \in TickRnd :
               LET t == schedulePause(Expired(World, i), rnd)
               IN  t.out = <<>> /\ t.nodeClass = nodeClass
        /\ (observers > 0 /\ pending # <<>>) =>
               LET r == observerCallback([World EXCEPT !.pending = <<>>], pending)
               IN  r.isCharThinking = isCharThinking /\ r.out = <<>>

\* A hide has found the node, with every loop enabled and a reasoning block
\* that reads "thinking" in the chat.
C2_Witness ==
    /\ phase = "hidden"
    /\ removeTimers # <<>>
    /\ nodeHTML = "thinking"
    /\ settings.soundEnabled
    /\ settings.simulatePauses
    /\ settings.showThinking
    /\ messages = <<"thinking">>

\* An undelivered batch of attribute changes, all on the reasoning block of
\* the current last message, waits for an observer of a visible, mounted
\* indicator.
AttributeBatch ==
    /\ observers > 0
    /\ isIndicatorVisible
    /\ nodes > 0
    /\ pending # <<>>
    /\ \A k \in 1..Len(pending) :
           pending[k] = [type |-> "attributes", i |-> Len(messages)]

\* The data-state the block had before the batch's changes: each change
\* swaps "thinking" and "done".
StateBefore ==
    IF Len(pending) % 2 = 0 THEN messages[Len(messages)]
    ELSE IF messages[Len(messages)] = "thinking" THEN "done" ELSE "thinking"

Delivered == observerCallback([World EXCEPT !.pending = <<>>], pending)

\* C3 as claimed: when the sub-state agreed with the block before the
\* changes, every attribute change of the batch produces one transition and
\* one re-render, however many changes the batch holds.
C3_Original ==
    (AttributeBatch /\ isCharThinking = (StateBefore = "thinking")) =>
        /\ Len(Delivered.out) = Len(pending)
        /\ Delivered.isCharThinking = (messages[Len(messages)] = "thinking")

\* C3 as amended: an attribute change delivered in a batch of its own flips
\* the sub-state to the block's new state and re-renders exactly once.
C3_OnePerDelivery ==
    (AttributeBatch /\ Len(pending) = 1
        /\ isCharThinking = (StateBefore = "thinking")) =>
        /\ Len(Delivered.out) = 1
        /\ Delivered.isCharThinking = ~isCharThinking
        /\ Delivered.isCharThinking = (messages[Len(messages)] = "thinking")

\* The indicator shows "thinking" and the change to "done" awaits delivery.
C3_Witness ==
    /\ AttributeBatch
    /\ Len(pending) = 1
    /\ isCharThinking
    /\ nodeHTML = "thinking"
    /\ messages[Len(messages)] = "done"

\* C4: a record whose reasoning block is not inside the current last message
\* changes neither the thinking flag nor the indicator's content, alone or
\* in a batch of such records.
C4_StaleIgnored ==
    observers > 0 =>
        /\ \A k \in 1..Len(pending), flag \in BOOLEAN :
               pending[k].i # Len(messages) =>
                   LET w == [World EXCEPT !.isCharThinking = flag]
                   IN  handleMutation(w, pending[k], Len(messages)) = w
        /\ (\A k \in 1..Len(pending) : pending[k].i # Len(messages)) =>
               /\ Delivered.isCharThinking = isCharThinking
               /\ Delivered.nodeHTML = nodeHTML
               /\ Delivered.out = <<>>

\* A change to "thinking" on the block of the older of two messages is queued
\* while the indicator shows "typing".
C4_Witness ==
    /\ observers > 0
    /\ isIndicatorVisible
    /\ nodes > 0
    /\ ~isCharThinking
    /\ Len(messages) = 2
    /\ messages[1] = "thinking"
    /\ \E k \in 1..Len(pending) : pending[k] = [type |-> "attributes", i |-> 1]

\* C5: a start of kind quiet or impersonate, or with the dry-run flag, leaves
\* the world as it was: node, flags, set, timers and observer.
C5_SuppressedNoEffect ==
    \A type \in GenTypes, name \in Names \cup {NoName}, dryRun \in BOOLEAN,
       rnd \in Rnd :
        (Draws(type, name, dryRun, rnd)
            /\ (type \in noIndicatorTypes \/ dryRun)) =>
            showTypingIndicator(World, type, name, dryRun, rnd) = World

\* A suppressed start can arrive while everything is running.
C5_Witness ==
    /\ isIndicatorVisible
    /\ isCharThinking
    /\ nodes = 1
    /\ typingCharacters # {}
    /\ soundTimers # <<>>
    /\ pauseTimers # <<>>
    /\ observers = 1
    /\ pending # <<>>

Runtime(w) ==
    <<w.isIndicatorVisible, w.isCharThinking, w.typingCharacters,
      w.soundInterval, w.soundTimers, w.pauseTimeout, w.pauseTimers,
      w.thinkingObserver, w.observers, w.pending>>

\* C6: a second hide in a row leaves the runtime state where the first one
\* put it, and clearing again what clearTimers has cleared changes nothing.
C6_HideIdempotent ==
    LET h1 == hideHandler(World)
        h2 == hideHandler(h1)
    IN  /\ Runtime(h2) = Runtime(h1)
        /\ clearTimers(h1) = h1
        /\ clearTimers(clearTimers(World)) = clearTimers(World)

\* Two hides have found the node: both removals are pending.
C6_Witness ==
    /\ phase = "hidden"
    /\ Len(removeTimers) = 2
    /\ nodes = 1
    /\ settings.soundEnabled
    /\ settings.simulatePauses
    /\ settings.showThinking

\* C7 as claimed: a start that is not suppressed, with the chat container
\* present, leaves thinking false and every eligible loop live.
C7_Original ==
    \A type \in GenTypes, name \in Names \cup {NoName}, dryRun \in BOOLEAN,
       rnd \in Rnd :
        (Draws(type, name, dryRun, rnd)
            /\ Proceeds(type, dryRun) /\ chatPresent) =>
            LET r == showTypingIndicator(World, type, name, dryRun, rnd)
            IN  /\ ~r.isCharThinking
                /\ settings.soundEnabled =>
                       r.soundInterval = "live" /\ r.soundTimers # <<>>
                /\ settings.simulatePauses =>
                       r.pauseTimeout = "live" /\ r.pauseTimers # <<>>
                /\ settings.showThinking =>
                       r.thinkingObserver = "live" /\ r.observers > 0

\* C8: thinking is false whenever visible is false.
C8_ThinkingOnlyVisible == ~isIndicatorVisible => ~isCharThinking

\* A hide has come while the indicator showed "thinking": the fading node
\* still has that content.
C8_Witness ==
    /\ ~isIndicatorVisible
    /\ phase = "hidden"
    /\ nodes = 1
    /\ nodeHTML = "thinking"
    /\ messages # <<>>
    /\ messages[Len(messages)] = "thinking"

\* C9 as claimed: whenever visible is true the node is mounted.
C9_Original == isIndicatorVisible => nodes > 0

\* C10: a hide makes visible false at once; one that finds the node schedules
\* its removal after HideDelay, one that finds none schedules nothing; and
\* the expiry of a pending removal leaves no node in the DOM.
C10_DelayedRemoval ==
    LET h == hideHandler(World)
    IN  /\ ~h.isIndicatorVisible
        /\ nodes > 0 => h.removeTimers = Append(removeTimers, HideDelay)
        /\ nodes = 0 => h.removeTimers = removeTimers
        /\ \A k \in 1..Len(removeTimers) : removeTimers[k] = HideDelay
        /\ removeTimers # <<>> =>
               removeNode([World EXCEPT !.removeTimers = Tail(@)]).nodes = 0

\* A hide has found the node: it fades, one removal is pending.
C10_Witness ==
    /\ phase = "hidden"
    /\ ~isIndicatorVisible
    /\ nodes = 1
    /\ "hiding" \in nodeClass
    /\ removeTimers = <<HideDelay>>

\* C11 as claimed: with sound enabled and the stream-gated-sound toggle set
\* (gate; no line of the source reads such a setting), a start that is not
\* suppressed reaches no cue and starts no sound timer, the first stream
\* token after it starts the sound loop, and a later token starts no other.
C11_Original ==
    \A gate \in BOOLEAN, type \in GenTypes, name \in Names \cup {NoName},
       dryRun \in BOOLEAN, rnd \in Rnd :
        (Draws(type, name, dryRun, rnd) /\ Proceeds(type, dryRun)
            /\ settings.soundEnabled /\ gate) =>
            LET r == showTypingIndicator(World, type, name, dryRun, rnd)
                t == handleMessageChunk(r)
            IN  /\ ~Attempted(r)
                /\ r.soundTimers = <<>>
                /\ r.isIndicatorVisible => Len(t.soundTimers) = 1
                /\ handleMessageChunk(t).soundTimers = t.soundTimers

\* C12 as claimed: the delay between two consecutive cues of the sound loop,
\* which is the timer's period times the firings it took, lies within
\* [300, 500] with the dynamic-rhythm toggle off and within [150, 600] with
\* it on (no line of the source reads such a setting).
C12_Original ==
    \A i \in 1..Len(soundTimers), dynamicRhythm \in BOOLEAN :
        (isIndicatorVisible /\ settings.soundEnabled) =>
            LET delay == (silentFirings + 1) * soundTimers[i]
            IN  IF dynamicRhythm THEN delay \in 150..600
                ELSE delay \in 300..500

\* C13 as claimed: a firing of the sound timer that finds visible false or
\* sound disabled plays no cue and leaves no sound timer pending.
C13_Original ==
    \A i \in 1..Len(soundTimers), audio \in AudioOutcomes :
        ~(isIndicatorVisible /\ settings.soundEnabled) =>
            LET r == soundCallback(World, audio)
            IN  /\ ~Attempted(r)
                /\ r.soundTimers = <<>>
                /\ r.soundInterval = "null"

\* A keystroke would be accepted: master switch and user indicator both on.
Accepted == settings.enabled /\ userSettings.userTypingEnabled

Keystroke == showUserTypingIndicator(UserWorld)

\* C14 as claimed: an accepted keystroke that finds no user-indicator node
\* inserts exactly one; one that finds the node leaves it and its content as
\* they were; there is never more than one node.
C14_Original ==
    /\ userNodes <= 1
    /\ Accepted =>
           /\ userNodes = 0 =>
                  Keystroke.userNodes = 1 /\ Keystroke.out = <<"mount">>
           /\ userNodes > 0 =>
                  /\ Keystroke.userNodes = userNodes
                  /\ Keystroke.userNodeHTML = userNodeHTML
                  /\ Keystroke.out = <<>>

\* C14 as amended: an accepted keystroke that finds no user-indicator node
\* inserts exactly one, rendered from the current settings, when the send
\* form exists, and none when it does not; one that finds the node leaves it
\* and its content as they were; there is never more than one node.
C14_InsertOnce ==
    /\ userNodes <= 1
    /\ Accepted =>
           /\ (userNodes = 0 /\ sendFormPresent) =>
                  /\ Keystroke.userNodes = 1
                  /\ Keystroke.userNodeHTML = generateUserHTML
                  /\ Keystroke.out = <<"mount">>
           /\ (userNodes = 0 /\ ~sendFormPresent) =>
                  Keystroke.userNodes = 0 /\ Keystroke.out = <<>>
           /\ userNodes > 0 =>
                  /\ Keystroke.userNodes = userNodes
                  /\ Keystroke.userNodeHTML = userNodeHTML
                  /\ Keystroke.out = <<>>

\* A keystroke has mounted the node and the text setting has changed since:
\* the next keystroke finds a node whose content a render would change.
C14_Witness ==
    /\ Accepted
    /\ userPhase = "key"
    /\ userNodes = 1
    /\ userNodeHTML # generateUserHTML

\* C15: at most one idle timer is pending, and it is pending exactly while
\* the handle is set; the node is never mounted without it; an accepted
\* keystroke leaves exactly one timer, its own, set to the configured
\* timeout (DefaultTimeoutMs when none is configured); and the expiry of the
\* pending timer removes the node and leaves no timer.
C15_SingleIdleTimer ==
    /\ Len(userTimers) <= 1
    /\ (userTypingTimeout = "live") = (userTimers # <<>>)
    /\ userNodes > 0 => userTimers # <<>>
    /\ Accepted =>
           /\ Keystroke.userTimers = <<IdleTimeout>>
           /\ Keystroke.userTypingTimeout = "live"
    /\ \A i \in 1..Len(userTimers) :
           LET e == hideUserTypingIndicator(UserExpired(UserWorld, i))
           IN  /\ e.userNodes = 0
               /\ e.userTimers = <<>>
               /\ e.userTypingTimeout = "null"

\* A keystroke's 300 ms timer is pending and the timeout has been set back
\* to the default since: the next keystroke must replace it by a 600 ms one.
C15_Witness ==
    /\ Accepted
    /\ userPhase = "key"
    /\ userNodes = 1
    /\ userTimers = <<300>>
    /\ userSettings.userTypingTimeoutMs = 0

\* C16: a message-sent event, in whatever state it arrives, leaves no node,
\* no pending idle timer and no handle; and after it nothing of the three
\* exists until the next keystroke.
C16_SentRemovesNow ==
    /\ LET h == hideUserTypingIndicator(UserWorld)
       IN  /\ h.userNodes = 0
           /\ h.userTimers = <<>>
           /\ h.userTypingTimeout = "null"
           /\ userNodes > 0 => h.out = <<"unmount">>
    /\ userPhase = "sent" =>
           /\ userNodes = 0
           /\ userTimers = <<>>
           /\ userTypingTimeout = "null"

\* The message was sent, and the indicator would show on the next keystroke.
C16_Witness ==
    /\ userPhase = "sent"
    /\ Accepted
    /\ sendFormPresent
    /\ userNodes = 0

\* C17: a keystroke that arrives while the master switch is off or the user
\* indicator is disabled leaves node, content, handle and timer as they were.
C17_IgnoredKeystroke ==
    ~Accepted => Keystroke = UserWorld

\* A keystroke was ignored while the node of an earlier one was mounted and
\* its idle timer pending.
C17_Witness ==
    /\ userPhase = "ignored"
    /\ ~settings.enabled
    /\ userSettings.userTypingEnabled
    /\ userNodes = 1
    /\ userTimers # <<>>

\* The draws of a call that makes none.
NoDraws ==
    [soundDelay |-> 300, shouldPause |-> FALSE, pauseDuration |-> 300,
     nextCheck |-> 800, audio |-> "played"]

\* C18: a start that arrives while the feature is disabled or while no
\* character identity is known leaves the world as it was: node, flags, set,
\* timers and observer.
C18_DisabledNoOp ==
    \A type \in GenTypes, name \in Names \cup {NoName}, dryRun \in BOOLEAN :
        (~settings.enabled \/ ~name2) =>
            showTypingIndicator(World, type, name, dryRun, NoDraws) = World

\* The character was unloaded while the indicator ran with all its loops.
C18_Witness ==
    /\ ~name2
    /\ settings.enabled
    /\ isIndicatorVisible
    /\ nodes = 1
    /\ soundTimers # <<>>
    /\ pauseTimers # <<>>
    /\ observers = 1

\* C19 as claimed: with the chat container absent, a start that is not
\* suppressed inserts no node, keeps visible and typingCharacters as they
\* were and starts no sound timer, pause timer or observer.
C19_Original ==
    \A type \in GenTypes, name \in Names \cup {NoName}, dryRun \in BOOLEAN,
       rnd \in Rnd :
        (Draws(type, name, dryRun, rnd)
            /\ Proceeds(type, dryRun) /\ ~chatPresent) =>
            LET r == showTypingIndicator(World, type, name, dryRun, rnd)
            IN  /\ r.nodes = nodes
                /\ r.out = <<>>
                /\ r.isIndicatorVisible = isIndicatorVisible
                /\ r.typingCharacters = typingCharacters
                /\ r.soundTimers = <<>> /\ r.soundInterval = "null"
                /\ r.pauseTimers = <<>> /\ r.pauseTimeout = "null"
                /\ r.observers = 0 /\ r.thinkingObserver = "null"

\* C20: a start whose call of playTypingSound fails (no audio context, or a
\* throw of the synthesis) mounts the node, sets visible and starts the
\* sound timer, the observer and the pause loop exactly as the same start
\* does when the cue plays; and a firing of the sound timer whose cue fails
\* changes nothing.
C20_AudioFailureContained ==
    /\ (settings.enabled /\ name2 /\ chatPresent /\ nodes = 0
            /\ settings.soundEnabled) =>
        \A type \in GenTypes \ noIndicatorTypes, name \in Names \cup {NoName},
           rnd \in Rnd, audio \in AudioOutcomes \ {"played"} :
        Draws(type, name, FALSE, rnd) =>
            LET r  == showTypingIndicator(World, type, name, FALSE,
                                          [rnd EXCEPT !.audio = audio])
                ok == showTypingIndicator(World, type, name, FALSE, rnd)
            IN  /\ [r EXCEPT !.out = <<>>] = [ok EXCEPT !.out = <<>>]
                /\ r.nodes = 1
                /\ r.isIndicatorVisible
                /\ r.soundInterval = "live"
                /\ settings.showThinking => r.thinkingObserver = "live"
                /\ settings.simulatePauses => r.pauseTimeout = "live"
                /\ \A k \in 1..Len(r.out) : r.out[k] # "cue"
    /\ \A i \in 1..Len(soundTimers), audio \in AudioOutcomes :
           [soundCallback(World, audio) EXCEPT !.out = <<>>] = World

\* A start in a chat with a reasoning block has mounted the node and
\* started the sound timer, the pause loop and the observer.
C20_Witness ==
    /\ phase = "started"
    /\ isIndicatorVisible
    /\ nodes = 1
    /\ soundInterval = "live"
    /\ pauseTimeout = "live"
    /\ thinkingObserver = "live"
    /\ messages # <<>>

\* C21: a pause-loop tick that finds the indicator node missing or visible
\* false schedules nothing and applies no pause; every other tick schedules
\* exactly one next tick, 800 to 2300 ms later, whether or not it applied a
\* pause.
C21_TickReschedules ==
    \A i \in 1..Len(pauseTimers), rnd \in TickRnd :
        LET e == Expired(World, i)
            r == schedulePause(e, rnd)
        IN  IF nodes = 0 \/ ~isIndicatorVisible
            THEN r = e
            ELSE /\ Len(r.pauseTimers) = Len(e.pauseTimers) + 1
                 /\ Front(r.pauseTimers) = e.pauseTimers
                 /\ r.pauseTimers[Len(r.pauseTimers)] \in 800..2300
                 /\ r.pauseTimeout = "live"
                 /\ (r.out = <<"paused">>) = rnd.shouldPause
                 /\ ~rnd.shouldPause => r.out = <<>>

\* A tick has found the node removed under a visible indicator and has
\* scheduled nothing: its handle is spent and no tick is pending.
C21_Witness ==
    /\ isIndicatorVisible
    /\ nodes = 0
    /\ settings.simulatePauses
    /\ pauseTimeout = "stale"
    /\ pauseTimers = <<>>

\* C22 as claimed: a pause is never cut short by the one-shot timer of an
\* earlier pause. The earlier timer i was set for longer than the shortest
\* delay of the next tick, so that the tick of the later pause j can come
\* before i expires; the expiry of i then leaves the node paused.
C22_Original ==
    \A i, j \in 1..Len(unpauseTimers) :
        (/\ i < j
         /\ \E n \in NextChecks : n < unpauseTimers[i]
         /\ isIndicatorVisible
         /\ "paused" \in nodeClass) =>
            "paused" \in unpauseCallback(World, i).nodeClass

\* C23 as claimed: the delay before each cue of the sound loop is drawn
\* anew for that cycle, so that whatever delay led to a firing that plays a
\* cue, each delay of SoundDelays can be the one to the next firing.
C23_Original ==
    \A i \in 1..Len(soundTimers), d \in SoundDelays :
        (isIndicatorVisible /\ settings.soundEnabled) =>
            \E audio \in AudioOutcomes :
                LET r == soundCallback(World, audio)
                IN  r.soundTimers # <<>> /\ r.soundTimers[i] = d

\* C24 as claimed, read state by state: in every state where group-chat
\* support is disabled, typingCharacters is empty.
C24_Original == ~settings.groupChatSupport => typingCharacters = {}

\* C24: a name enters typingCharacters only through a generation-start that
\* is not suppressed and supplies a name while group-chat support is
\* enabled; while group-chat support is disabled an empty set stays empty
\* across every event; and every stop, end or chat-changed event empties it.
C24_NamesEnter ==
    [][/\ \A type \in GenTypes, name \in Names, dryRun \in BOOLEAN :
           showTypingIndicator(World, type, name, dryRun,
                               NoDraws).typingCharacters
             = IF Proceeds(type, dryRun) /\ settings.groupChatSupport
               THEN typingCharacters \cup {name}
               ELSE typingCharacters
       /\ \A type \in GenTypes, dryRun \in BOOLEAN :
           showTypingIndicator(World, type, NoName, dryRun,
                               NoDraws).typingCharacters = typingCharacters
       /\ hideHandler(World).typingCharacters = {}
       /\ ~(typingCharacters' \subseteq typingCharacters) =>
              /\ settings.groupChatSupport /\ settings.enabled /\ name2
              /\ phase' \in {"started", "restarted"}
              /\ \E name \in Names :
                     typingCharacters' = typingCharacters \cup {name}
       /\ (~settings.groupChatSupport /\ ~settings'.groupChatSupport
               /\ typingCharacters = {}) => typingCharacters' = {}
       /\ phase' = "hidden" => typingCharacters' = {}]_vars

\* A start in group-chat mode has recorded the name of its character.
C24_Witness ==
    /\ settings.groupChatSupport
    /\ phase = "started"
    /\ typingCharacters = {"Alice"}

\* C25 as claimed: while the thinking-detection setting is off, thinking
\* stays false: no step taken with the setting off, before and after, makes
\* thinking true.
C25_Original ==
    [][(~settings.showThinking /\ ~settings'.showThinking
           /\ ~isCharThinking) => ~isCharThinking']_vars

\* C26 as claimed: right after a start that is not suppressed, processed
\* with the feature enabled, a character known and the chat container
\* present, visible is true and the node is mounted, also when the start
\* finds the node of a previous indicator fading out.
C26_Original ==
    \A type \in GenTypes \ noIndicatorTypes, name \in Names \cup {NoName} :
        (settings.enabled /\ name2 /\ chatPresent) =>
            LET r == showTypingIndicator(World, type, name, FALSE, NoDraws)
            IN  r.isIndicatorVisible /\ r.nodes > 0

\* C27 as claimed: the expiry of a removal that a hide scheduled, coming
\* after a later start has created or re-shown the node and before any new
\* hide, leaves that node mounted.
C27_Original ==
    (/\ phase \in {"started", "restarted"}
     /\ removeTimers # <<>>
     /\ nodes > 0
     /\ "visible" \in nodeClass) =>
        removeNode([World EXCEPT !.removeTimers = Tail(@)]).nodes > 0

\* C28: in every state where visible is false there is no sound timer, no
\* pause timer and no connected observer, and their handles are null.
C28_HiddenMeansIdle ==
    ~isIndicatorVisible =>
        /\ soundTimers = <<>> /\ soundInterval = "null"
        /\ pauseTimers = <<>> /\ pauseTimeout = "null"
        /\ observers = 0 /\ thinkingObserver = "null"
        /\ pending = <<>>

\* A start has re-shown a fading node with every loop enabled: the node is
\* mounted, visible is false and nothing runs.
C28_Witness ==
    /\ ~isIndicatorVisible
    /\ phase = "started"
    /\ nodes = 1
    /\ "visible" \in nodeClass
    /\ settings.soundEnabled
    /\ settings.simulatePauses
    /\ settings.showThinking

\* C29 as claimed: in every state where visible is false, typingCharacters
\* is empty.
C29_Original == ~isIndicatorVisible => typingCharacters = {}

\* C30 as claimed: while the indicator is visible and every mutation batch
\* has been processed, thinking is true only while some reasoning block is in
\* state "thinking": once the block that set it is done, thinking is false,
\* also when a newer message has become the last one in between.
C30_Original ==
    (/\ isIndicatorVisible
     /\ observers > 0
     /\ Drained
     /\ isCharThinking) =>
        \E i \in 1..Len(messages) : messages[i] = "thinking"

====
